---- MODULE Spec2Model ----
(***************************************************************************)
(* Model of bot.py: the /compress job pipeline (compress_command), the     *)
(* media locator (get_video_from_message), the encoder wrapper             *)
(* (compress_video) and the deferred deletion task (delete_later).         *)
(*                                                                         *)
(* One action per stretch of compress_command between two suspension       *)
(* points (await) or blocking calls.  Every Telegram call and the encoder  *)
(* either returns or raises; what happens to a raised exception is decided *)
(* by the try/except/finally/with structure of the source (Caught).        *)
(*                                                                         *)
(* Conventions: Python None and the empty string are both the empty        *)
(* sequence (the code only tests their truthiness); mime types and file     *)
(* names are sequences of characters so that startswith and the f-string   *)
(* of the output name are computed; a path is <<directory, name>>; sizes   *)
(* are kept                                                                *)
(* in bytes (dividing both sides by 1024*1024 keeps the comparisons).      *)
(***************************************************************************)
EXTENDS Integers, Sequences, FiniteSets, TLC

\* ---------------------------------------------------------------- bounds
MaxDelta == 1          \* file sizes range from MaxDelta bytes below the threshold to MaxDelta+1 above
MaxUserDeletes == 1    \* manual deletions by the chat user during one job

\* ------------------------------------------------------ program constants
OversizeMB == 45
BytesPerMB == 1048576
delay_file_not_found == 10
delay_limit_erorr == 10
delay_err == 10

\* ------------------------------------------------------------ input data
\* file names are sequences of characters, <<>> for a missing name
ClipMp4 == <<"c","l","i","p",".","m","p","4">>
InputMp4 == <<"i","n","p","u","t",".","m","p","4">>
compressed_prefix == <<"c","o","m","p","r","e","s","s","e","d","_">>
VideoNames == {<<>>, ClipMp4}
DocNames == {<<>>, compressed_prefix \o ClipMp4}
VideoMp4 == <<"v","i","d","e","o","/","m","p","4">>
VideoNoSlash == <<"v","i","d","e","o">>
ImageGif == <<"i","m","a","g","e","/","g","i","f">>
MimeTypes == {<<>>, VideoMp4, VideoNoSlash, ImageGif}

Videos == {<<>>} \cup {<<[file_name |-> f]>> : f \in VideoNames}
Documents == {<<>>} \cup {<<[mime_type |-> m, file_name |-> f]>> : m \in MimeTypes, f \in DocNames}

\* Telegram messages a command can be or reply to.  A message with both a
\* video and a document only needs one document shape (the video wins).
Messages ==
  {m \in [video : Videos, document : Documents] :
     m.video # <<>> => m.document \in {<<>>, <<[mime_type |-> VideoMp4, file_name |-> compressed_prefix \o ClipMp4]>>}}

NoMessage == [video |-> <<>>, document |-> <<>>]

Sizes == {OversizeMB * BytesPerMB + d : d \in (0 - MaxDelta)..(MaxDelta + 1)}

\* Messages of the chat the job touches: the command (update.message) and
\* what the bot posts, named after the variables of compress_command.
BotMsgs == {"processing_msg", "file_not_found_msg", "fail_msg", "warning_msg",
            "limit_erorr_msg", "err_msg", "video_reply"}
MsgIds == {"message"} \cup BotMsgs

\* ------------------------------------------------------ pure functions
startswith(s, p) == Len(s) >= Len(p) /\ SubSeq(s, 1, Len(p)) = p

video_prefix == <<"v","i","d","e","o","/">>

or_default(name) == IF name # <<>> THEN name ELSE InputMp4

\* get_video_from_message looking at the document before the video
get_video_from_message_doc_first(m) ==
  IF /\ m.document # <<>>
     /\ m.document[1].mime_type # <<>>
     /\ startswith(m.document[1].mime_type, video_prefix)
    THEN <<"document", or_default(m.document[1].file_name)>>
  ELSE IF m.video # <<>>
    THEN <<"video", or_default(m.video[1].file_name)>>
  ELSE <<"None", <<>>>>

\* get_video_from_message: <<which attribute holds the media, file name>>
get_video_from_message(m) ==
  IF m.video # <<>>
    THEN <<"video", or_default(m.video[1].file_name)>>
  ELSE IF /\ m.document # <<>>
          /\ m.document[1].mime_type # <<>>
          /\ startswith(m.document[1].mime_type, video_prefix)
    THEN <<"document", or_default(m.document[1].file_name)>>
  ELSE <<"None", <<>>>>

\* exception classes of telegram.error and subprocess
IsInstance(exc, cls) ==
  \/ exc = cls
  \/ cls = "TelegramError" /\ exc \in {"NetworkError", "TimedOut", "BadRequest"}
  \/ cls = "NetworkError" /\ exc = "TimedOut"

CleanupSites == {"nr_processing", "nr_message", "nr_warning",
                 "fin_processing", "fin_message", "fin_warning"}

\* Caught without the try/except around the two cleanup blocks and in delete_later
Caught_cleanup_bare(site, exc) ==
  CASE site = "encode" -> exc = "CalledProcessError"
    [] site = "deliver" -> IsInstance(exc, "TimedOut")
    [] OTHER -> FALSE

\* Caught without the except subprocess.CalledProcessError clause
Caught_encode_bare(site, exc) ==
  CASE site = "deliver" -> IsInstance(exc, "TimedOut")
    [] site \in CleanupSites -> IsInstance(exc, "TelegramError")
    [] site = "delete_later" -> IsInstance(exc, "TelegramError")
    [] OTHER -> FALSE

\* Is an exception raised at a call site handled by an except clause that
\* encloses that call?
Caught(site, exc) ==
  CASE site = "encode" -> exc = "CalledProcessError"
    [] site = "deliver" -> IsInstance(exc, "TimedOut")
    [] site \in CleanupSites -> IsInstance(exc, "TelegramError")
    [] site = "delete_later" -> IsInstance(exc, "TelegramError")
    [] OTHER -> FALSE

\* a directory made with mkdtemp and never removed
TemporaryDirectory_exit_leak(dir) == dir

\* tempfile.TemporaryDirectory.__exit__: the directory is removed whenever
\* control leaves the with block
TemporaryDirectory_exit(dir) == IF dir = "exists" THEN "removed" ELSE dir

\* --------------------------------------------------------------- state
VARIABLES
  update_message,   \* TRUE iff update.message is not None
  message,          \* the command message
  reply_to_message, \* <<>> or <<the message the command replies to>>
  pc,               \* position of compress_command
  media_obj,        \* "None", "video" or "document"
  file_name,
  source_msg,       \* "message" or "reply_to_message"
  warning_msg,      \* "None" or "warning_msg"
  chat,             \* MsgIds -> "absent" | "present" | "deleted"
  postCalls,        \* MsgIds -> number of reply_text/reply_video calls made
  delCalls,         \* MsgIds -> number of delete() calls made by the bot
  userDeleted,      \* messages the user removed by hand
  tasks,            \* pending delete_later tasks: records [msg, delay]
  tmpdir,           \* "none" | "exists" | "removed"
  files,            \* files under the temp root: records [path, size]
  original_size,    \* bytes; 0 until measured
  compressed_size,
  encodeCalls,      \* number of compress_video invocations
  repliedTo,        \* message reply_video was called on, "none" before
  pending,          \* site of the exception pending while finally runs
  timed_out,        \* the except TimedOut branch was taken
  outcome,          \* "Running" until compress_command ends
  escaped,          \* call sites whose exception left its coroutine
  scheduled,        \* every delete_later task ever created: records [msg, delay]
  encodeResult,     \* how the last encoder run ended, "none" before
  deleteErrors,     \* exceptions raised by delete() calls: records [site, exc]
  cmd,              \* argument list of the last encoder run, <<>> before
  tmpdir_path,      \* name of the workspace directory, "" before it is made
  wrote,            \* sizes this job's download and encoder wrote: [input, output]
  job,              \* which job these variables belong to
  parked            \* <<>> or <<the variables of the other, suspended job>>

vars == <<update_message, message, reply_to_message, pc, media_obj, file_name,
          source_msg, warning_msg, chat, postCalls, delCalls, userDeleted,
          tasks, tmpdir, files, original_size, compressed_size, encodeCalls,
          repliedTo, pending, timed_out, outcome, escaped, scheduled,
          encodeResult, deleteErrors, cmd, tmpdir_path, wrote, job, parked>>

inputVars == <<update_message, message, reply_to_message>>
resolved == <<media_obj, file_name, source_msg>>
sizeVars == <<original_size, compressed_size>>

Init ==
  /\ update_message \in BOOLEAN
  /\ message \in (IF update_message THEN Messages ELSE {NoMessage})
  /\ reply_to_message \in (IF update_message
                             THEN {<<>>} \cup {<<m>> : m \in Messages}
                             ELSE {<<>>})
  /\ pc = "start"
  /\ media_obj = "None"
  /\ file_name = <<>>
  /\ source_msg = "message"
  /\ warning_msg = "None"
  /\ chat = [m \in MsgIds |-> IF m = "message" /\ update_message THEN "present" ELSE "absent"]
  /\ postCalls = [m \in MsgIds |-> 0]
  /\ delCalls = [m \in MsgIds |-> 0]
  /\ userDeleted = {}
  /\ tasks = {}
  /\ tmpdir = "none"
  /\ files = {}
  /\ original_size = 0
  /\ compressed_size = 0
  /\ encodeCalls = 0
  /\ repliedTo = "none"
  /\ pending = "none"
  /\ timed_out = FALSE
  /\ outcome = "Running"
  /\ escaped = {}
  /\ scheduled = {}
  /\ encodeResult = "none"
  /\ deleteErrors = {}
  /\ cmd = <<>>
  /\ tmpdir_path = ""
  /\ wrote = [input |-> 0, output |-> 0]
  /\ job = 0
  /\ parked = <<>>

\* ------------------------------------------------- ends of the coroutine
\* return from compress_command (leaving the with block if inside it)
Return(o) ==
  /\ pc' = "Done"
  /\ outcome' = o
  /\ tmpdir' = TemporaryDirectory_exit(tmpdir)
  /\ files' = IF TemporaryDirectory_exit(tmpdir) = "exists" THEN files
              ELSE {f \in files : f.path[1] # tmpdir_path}
  /\ escaped' = escaped

\* an exception raised at `site` leaves compress_command
Propagate(site) ==
  /\ pc' = "Done"
  /\ outcome' = "Error"
  /\ tmpdir' = TemporaryDirectory_exit(tmpdir)
  /\ files' = IF TemporaryDirectory_exit(tmpdir) = "exists" THEN files
              ELSE {f \in files : f.path[1] # tmpdir_path}
  /\ escaped' = escaped \cup {site}

Goto(next) ==
  /\ pc' = next
  /\ UNCHANGED <<outcome, tmpdir, files, escaped>>

\* ------------------------------------------------------------- actions
\* lines 119-138: guard on update.message, media location
Resolve ==
  /\ pc = "start"
  /\ IF ~update_message
       THEN /\ Return("Ignored")
            /\ UNCHANGED resolved
       ELSE LET first == get_video_from_message(message)
                useReply == first[1] = "None" /\ reply_to_message # <<>>
                found == IF useReply THEN get_video_from_message(reply_to_message[1]) ELSE first
            IN /\ media_obj' = found[1]
               /\ file_name' = found[2]
               /\ source_msg' = IF useReply THEN "reply_to_message" ELSE "message"
               /\ Goto(IF found[1] = "None" THEN "usage_post" ELSE "processing_post")
  /\ UNCHANGED <<scheduled, encodeResult, deleteErrors, cmd, tmpdir_path, wrote, job, parked, inputVars, warning_msg, chat, postCalls, delCalls, userDeleted, tasks,
                 sizeVars, encodeCalls, repliedTo, pending, timed_out>>

\* results of the calls the handler makes
ReplyResults == {"ok", "NetworkError"}
VideoResults == {"ok", "TimedOut", "NetworkError"}
FileResults == {"ok", "NetworkError"}
EncodeResults == {"ok", "CalledProcessError", "OSError"}
\* deleting a message that is gone is a BadRequest
DeleteResults(m) == IF chat[m] = "present" THEN {"ok", "NetworkError"} ELSE {"BadRequest"}

\* line 158: Path(tmpdir) / file_name
input_path == <<tmpdir_path, file_name>>

\* an output path without the compressed_ prefix
output_path_unprefixed == <<tmpdir_path, file_name>>

\* line 159: Path(tmpdir) / f"compressed_{file_name}"
output_path == <<tmpdir_path, compressed_prefix \o file_name>>

\* lines 61-72: the argument list compress_video hands to subprocess.run
compress_video(input, output) ==
  <<"ffmpeg", "-y", "-i", input, "-vf", "scale=-2:720", "-c:v", "libx264",
    "-crf", "29", "-preset", "slow", "-c:a", "aac", output>>

\* directories that exist under the temp root besides the caller's
LiveDirs == IF parked # <<>> /\ parked[1].tmpdir = "exists" THEN {parked[1].tmpdir_path} ELSE {}

DirNames == {"tmp_a", "tmp_b"}

\* one fixed workspace path used by every job
mkdtemp_fixed(existing) == "tmp_a"

\* tempfile.TemporaryDirectory(): a directory name not in use
mkdtemp(existing) == CHOOSE d \in DirNames : d \notin existing

Exists(fs, p) == \E f \in fs : f.path = p

\* file sizes the download and the encoder can produce for a job: any of
\* Sizes for the single job 0, fixed and all different for jobs 1 and 2
InSizes(j) ==
  CASE j = 0 -> Sizes
    [] j = 1 -> {OversizeMB * BytesPerMB + MaxDelta + 1}
    [] j = 2 -> {OversizeMB * BytesPerMB}
OutSizes(j) ==
  CASE j = 0 -> Sizes
    [] j = 1 -> {OversizeMB * BytesPerMB + MaxDelta}
    [] j = 2 -> {OversizeMB * BytesPerMB - MaxDelta, OversizeMB * BytesPerMB}

\* the event loop runs other tasks only while no blocking call occupies it
LoopFree == pc # "encoding"

Posted(m) == [chat EXCEPT ![m] = "present"]
Deleted(m) == [chat EXCEPT ![m] = "deleted"]
Called(f, m) == [f EXCEPT ![m] = @ + 1]
WriteFile(fs, p, s) == {f \in fs : f.path # p} \cup {[path |-> p, size |-> s]}
st_size(fs, p) == (CHOOSE f \in fs : f.path = p).size

\* delete_later(msg, delay) called without create_task: the coroutine never runs
create_task_lost(t) ==
  /\ tasks' = tasks
  /\ scheduled' = scheduled \cup {t}

\* asyncio.create_task(delete_later(msg, delay))
create_task(t) ==
  /\ tasks' = tasks \cup {t}
  /\ scheduled' = scheduled \cup {t}

\* a delete() call at `site` ended with result r
DeleteRaised(site, r) ==
  deleteErrors' = IF r = "ok" THEN deleteErrors ELSE deleteErrors \cup {[site |-> site, exc |-> r]}

\* lines 139-145: usage help, with its deferred deletion
UsagePost ==
  /\ pc = "usage_post"
  /\ postCalls' = Called(postCalls, "file_not_found_msg")
  /\ \E r \in ReplyResults :
       IF r = "ok"
         THEN /\ chat' = Posted("file_not_found_msg")
              /\ create_task([msg |-> "file_not_found_msg", delay |-> delay_file_not_found])
              /\ Goto("usage_delete")
         ELSE /\ ~Caught("usage_post", r)
              /\ Propagate("usage_post")
              /\ UNCHANGED <<chat, tasks, scheduled>>
  /\ UNCHANGED <<encodeResult, deleteErrors, cmd, tmpdir_path, wrote, job, parked, inputVars, resolved, warning_msg, delCalls, userDeleted,
                 sizeVars, encodeCalls, repliedTo, pending, timed_out>>

\* lines 146-147: delete the command message and return
UsageDelete ==
  /\ pc = "usage_delete"
  /\ delCalls' = Called(delCalls, "message")
  /\ \E r \in DeleteResults("message") :
       /\ DeleteRaised("usage_delete", r)
       /\ IF r = "ok"
            THEN /\ chat' = Deleted("message")
                 /\ Return("NoInputFound")
            ELSE /\ ~Caught("usage_delete", r)
                 /\ Propagate("usage_delete")
                 /\ UNCHANGED chat
  /\ UNCHANGED <<scheduled, encodeResult, cmd, tmpdir_path, wrote, job, parked, inputVars, resolved, warning_msg, postCalls, userDeleted, tasks,
                 sizeVars, encodeCalls, repliedTo, pending, timed_out>>

\* line 149: processing-status message
ProcessingPost ==
  /\ pc = "processing_post"
  /\ postCalls' = Called(postCalls, "processing_msg")
  /\ \E r \in ReplyResults :
       IF r = "ok"
         THEN /\ chat' = Posted("processing_msg")
              /\ Goto("get_file")
         ELSE /\ ~Caught("processing_post", r)
              /\ Propagate("processing_post")
              /\ UNCHANGED chat
  /\ UNCHANGED <<scheduled, encodeResult, deleteErrors, cmd, tmpdir_path, wrote, job, parked, inputVars, resolved, warning_msg, delCalls, userDeleted, tasks,
                 sizeVars, encodeCalls, repliedTo, pending, timed_out>>

\* lines 153-159: get_file, then the with block is entered
GetFile ==
  /\ pc = "get_file"
  /\ \E r \in FileResults :
       IF r = "ok"
         THEN /\ pc' = "download"
              /\ tmpdir' = "exists"
              /\ tmpdir_path' = mkdtemp(LiveDirs)
              /\ UNCHANGED <<outcome, files, escaped>>
         ELSE /\ ~Caught("get_file", r)
              /\ Propagate("get_file")
              /\ UNCHANGED tmpdir_path
  /\ UNCHANGED <<scheduled, encodeResult, deleteErrors, cmd, wrote, job, parked, inputVars, resolved, warning_msg, chat, postCalls, delCalls, userDeleted,
                 tasks, sizeVars, encodeCalls, repliedTo, pending, timed_out>>

\* line 162: download into the workspace
Download ==
  /\ pc = "download"
  /\ \E r \in FileResults :
       IF r = "ok"
         THEN /\ \E s \in InSizes(job) :
                   /\ files' = WriteFile(files, input_path, s)
                   /\ wrote' = [wrote EXCEPT !.input = s]
              /\ pc' = "encode"
              /\ UNCHANGED <<outcome, tmpdir, escaped>>
         ELSE /\ ~Caught("download", r)
              /\ Propagate("download")
              /\ UNCHANGED wrote
  /\ UNCHANGED <<scheduled, encodeResult, deleteErrors, cmd, tmpdir_path, job, parked, inputVars, resolved, warning_msg, chat, postCalls, delCalls, userDeleted,
                 tasks, sizeVars, encodeCalls, repliedTo, pending, timed_out>>

\* line 166 / 73: compress_video starts the encoder and blocks on it
EncodeStart ==
  /\ pc = "encode"
  /\ encodeCalls' = encodeCalls + 1
  /\ cmd' = compress_video(input_path, output_path)
  /\ Goto("encoding")
  /\ UNCHANGED <<scheduled, encodeResult, deleteErrors, tmpdir_path, wrote, job, parked, inputVars, resolved, warning_msg, chat, postCalls, delCalls, userDeleted,
                 tasks, sizeVars, repliedTo, pending, timed_out>>

\* AfterSizes warning at the threshold itself (>= instead of >)
AfterSizes_ge(orig, comp, warned) ==
  IF comp >= OversizeMB * BytesPerMB /\ ~warned THEN "warning_post"
  ELSE IF orig <= comp THEN "limit_post"
  ELSE "deliver"

\* AfterSizes delivering when nothing was gained (< instead of <=)
AfterSizes_lt(orig, comp, warned) ==
  IF comp > OversizeMB * BytesPerMB /\ ~warned THEN "warning_post"
  ELSE IF orig < comp THEN "limit_post"
  ELSE "deliver"

\* lines 171-180: which branch follows once both sizes are known
AfterSizes(orig, comp, warned) ==
  IF comp > OversizeMB * BytesPerMB /\ ~warned THEN "warning_post"
  ELSE IF orig <= comp THEN "limit_post"
  ELSE "deliver"

\* lines 73, 166-174: the encoder exits; on success the sizes are measured
EncodeFinish ==
  /\ pc = "encoding"
  /\ \E r \in (IF Exists(files, input_path) THEN EncodeResults ELSE {"CalledProcessError"}) :
       /\ encodeResult' = r
       /\ IF r = "ok"
            THEN \E s \in OutSizes(job) :
                   LET fs == WriteFile(files, output_path, s)
                       orig == st_size(fs, input_path)
                       comp == st_size(fs, output_path)
                   IN /\ files' = fs
                      /\ wrote' = [wrote EXCEPT !.output = s]
                      /\ original_size' = orig
                      /\ compressed_size' = comp
                      /\ pc' = AfterSizes(orig, comp, FALSE)
                      /\ UNCHANGED <<outcome, tmpdir, escaped>>
            ELSE IF Caught("encode", r)
              THEN /\ Goto("fail_post")
                   /\ UNCHANGED <<sizeVars, wrote>>
              ELSE /\ Propagate("encode")
                   /\ UNCHANGED <<sizeVars, wrote>>
  /\ UNCHANGED <<scheduled, deleteErrors, cmd, tmpdir_path, job, parked, inputVars, resolved, warning_msg, chat, postCalls, delCalls, userDeleted,
                 tasks, encodeCalls, repliedTo, pending, timed_out>>

\* lines 167-169: failure notice, then return
FailPost ==
  /\ pc = "fail_post"
  /\ postCalls' = Called(postCalls, "fail_msg")
  /\ \E r \in ReplyResults :
       IF r = "ok"
         THEN /\ chat' = Posted("fail_msg")
              /\ Return("EncodeFailure")
         ELSE /\ ~Caught("fail_post", r)
              /\ Propagate("fail_post")
              /\ UNCHANGED chat
  /\ UNCHANGED <<scheduled, encodeResult, deleteErrors, cmd, tmpdir_path, wrote, job, parked, inputVars, resolved, warning_msg, delCalls, userDeleted, tasks,
                 sizeVars, encodeCalls, repliedTo, pending, timed_out>>

\* lines 174-178: oversize warning
WarningPost ==
  /\ pc = "warning_post"
  /\ postCalls' = Called(postCalls, "warning_msg")
  /\ \E r \in ReplyResults :
       IF r = "ok"
         THEN /\ chat' = Posted("warning_msg")
              /\ warning_msg' = "warning_msg"
              /\ Goto(AfterSizes(original_size, compressed_size, TRUE))
         ELSE /\ ~Caught("warning_post", r)
              /\ Propagate("warning_post")
              /\ UNCHANGED <<chat, warning_msg>>
  /\ UNCHANGED <<scheduled, encodeResult, deleteErrors, cmd, tmpdir_path, wrote, job, parked, inputVars, resolved, delCalls, userDeleted, tasks,
                 sizeVars, encodeCalls, repliedTo, pending, timed_out>>

\* lines 180-185: no-reduction explanation, with its deferred deletion
LimitPost ==
  /\ pc = "limit_post"
  /\ postCalls' = Called(postCalls, "limit_erorr_msg")
  /\ \E r \in ReplyResults :
       IF r = "ok"
         THEN /\ chat' = Posted("limit_erorr_msg")
              /\ create_task([msg |-> "limit_erorr_msg", delay |-> delay_limit_erorr])
              /\ Goto("nr_processing")
         ELSE /\ ~Caught("limit_post", r)
              /\ Propagate("limit_post")
              /\ UNCHANGED <<chat, tasks, scheduled>>
  /\ UNCHANGED <<encodeResult, deleteErrors, cmd, tmpdir_path, wrote, job, parked, inputVars, resolved, warning_msg, delCalls, userDeleted,
                 sizeVars, encodeCalls, repliedTo, pending, timed_out>>

\* reply_video called on the command message whatever the source
reply_video_target_command == "message"

\* line 200: the message reply_video is called on
reply_video_target == source_msg

\* lines 199-208: delivery of the output file as a reply to source_msg
Deliver ==
  /\ pc = "deliver"
  /\ postCalls' = Called(postCalls, "video_reply")
  /\ repliedTo' = reply_video_target
  /\ \E r \in (IF Exists(files, output_path) THEN VideoResults ELSE {"OSError"}) :
       IF r = "ok"
         THEN /\ chat' = Posted("video_reply")
              /\ Goto("fin_processing")
              /\ UNCHANGED <<pending, timed_out>>
         ELSE IF Caught("deliver", r)
           THEN /\ timed_out' = TRUE
                /\ Goto("timeout_post")
                /\ UNCHANGED <<chat, pending>>
           ELSE /\ pending' = "deliver"
                /\ Goto("fin_processing")
                /\ UNCHANGED <<chat, timed_out>>
  /\ UNCHANGED <<scheduled, encodeResult, deleteErrors, cmd, tmpdir_path, wrote, job, parked, inputVars, resolved, warning_msg, delCalls, userDeleted, tasks,
                 sizeVars, encodeCalls>>

\* lines 208-214: timeout notice, with its deferred deletion
TimeoutPost ==
  /\ pc = "timeout_post"
  /\ postCalls' = Called(postCalls, "err_msg")
  /\ \E r \in ReplyResults :
       IF r = "ok"
         THEN /\ chat' = Posted("err_msg")
              /\ create_task([msg |-> "err_msg", delay |-> delay_err])
              /\ UNCHANGED pending
         ELSE /\ pending' = "timeout_post"
              /\ UNCHANGED <<chat, tasks, scheduled>>
  /\ Goto("fin_processing")
  /\ UNCHANGED <<encodeResult, deleteErrors, cmd, tmpdir_path, wrote, job, parked, inputVars, resolved, warning_msg, delCalls, userDeleted,
                 sizeVars, encodeCalls, repliedTo, timed_out>>

\* ---- the two cleanup blocks: lines 188-196 ("nr") and 215-223 ("fin")
CleanupTarget(which) ==
  CASE which = "processing" -> "processing_msg"
    [] which = "message" -> "message"
    [] which = "warning" -> "warning_msg"

\* the statement after a successful delete; "end" leaves the try
CleanupNext(which) ==
  CASE which = "processing" -> "message"
    [] which = "message" -> IF warning_msg # "None" THEN "warning" ELSE "end"
    [] which = "warning" -> "end"

CleanupPc(block, which) ==
  CASE block = "nr" /\ which = "processing" -> "nr_processing"
    [] block = "nr" /\ which = "message" -> "nr_message"
    [] block = "nr" /\ which = "warning" -> "nr_warning"
    [] block = "fin" /\ which = "processing" -> "fin_processing"
    [] block = "fin" /\ which = "message" -> "fin_message"
    [] block = "fin" /\ which = "warning" -> "fin_warning"

\* what follows the try/except of a cleanup block
CleanupEnd(block) ==
  IF block = "nr" THEN Return("NoReduction")
  ELSE IF pending # "none" THEN Propagate(pending)
  ELSE Return(IF timed_out THEN "DeliveryTimeout" ELSE "Success")

CleanupDelete(block, which) ==
  /\ pc = CleanupPc(block, which)
  /\ delCalls' = Called(delCalls, CleanupTarget(which))
  /\ \E r \in DeleteResults(CleanupTarget(which)) :
       /\ DeleteRaised(CleanupPc(block, which), r)
       /\ IF r = "ok"
            THEN /\ chat' = Deleted(CleanupTarget(which))
                 /\ IF CleanupNext(which) = "end"
                      THEN CleanupEnd(block)
                      ELSE Goto(CleanupPc(block, CleanupNext(which)))
            ELSE /\ UNCHANGED chat
                 /\ IF Caught(CleanupPc(block, which), r)
                      THEN CleanupEnd(block)
                      ELSE Propagate(CleanupPc(block, which))
  /\ UNCHANGED <<scheduled, encodeResult, cmd, tmpdir_path, wrote, job, parked, inputVars, resolved, warning_msg, postCalls, userDeleted, tasks,
                 sizeVars, encodeCalls, repliedTo, pending, timed_out>>

NoReductionCleanup == \E which \in {"processing", "message", "warning"} : CleanupDelete("nr", which)
FinallyCleanup == \E which \in {"processing", "message", "warning"} : CleanupDelete("fin", which)

\* lines 97-103: a delete_later task wakes up and deletes its message
delete_later(t) ==
  /\ t \in tasks
  /\ LoopFree
  /\ tasks' = tasks \ {t}
  /\ UNCHANGED scheduled
  /\ delCalls' = Called(delCalls, t.msg)
  /\ \E r \in DeleteResults(t.msg) :
       /\ DeleteRaised("delete_later", r)
       /\ IF r = "ok"
            THEN /\ chat' = Deleted(t.msg)
                 /\ UNCHANGED escaped
            ELSE /\ UNCHANGED chat
                 /\ escaped' = IF Caught("delete_later", r) THEN escaped
                               ELSE escaped \cup {"delete_later"}
  /\ UNCHANGED <<encodeResult, cmd, tmpdir_path, wrote, job, parked, inputVars, resolved, pc, warning_msg, postCalls, userDeleted, tmpdir, files,
                 sizeVars, encodeCalls, repliedTo, pending, timed_out, outcome>>

DeleteLater == \E t \in tasks : delete_later(t)

\* the chat user removes a message by hand
UserDelete ==
  /\ Cardinality(userDeleted) < MaxUserDeletes
  /\ \E m \in MsgIds \ {"video_reply"} :
       /\ chat[m] = "present"
       /\ chat' = Deleted(m)
       /\ userDeleted' = userDeleted \cup {m}
  /\ UNCHANGED <<scheduled, encodeResult, deleteErrors, cmd, tmpdir_path, wrote, job, parked, inputVars, resolved, pc, warning_msg, postCalls, delCalls, tasks, tmpdir, files,
                 sizeVars, encodeCalls, repliedTo, pending, timed_out, outcome, escaped>>

Next ==
  \/ Resolve
  \/ UsagePost
  \/ UsageDelete
  \/ ProcessingPost
  \/ GetFile
  \/ Download
  \/ EncodeStart
  \/ EncodeFinish
  \/ FailPost
  \/ WarningPost
  \/ LimitPost
  \/ NoReductionCleanup
  \/ Deliver
  \/ TimeoutPost
  \/ FinallyCleanup
  \/ DeleteLater
  \/ UserDelete

Spec == Init /\ [][Next]_vars

\* every delete_later task the handler can create
AllTasks ==
  {[msg |-> "file_not_found_msg", delay |-> delay_file_not_found],
   [msg |-> "limit_erorr_msg", delay |-> delay_limit_erorr],
   [msg |-> "err_msg", delay |-> delay_err]}

\* the event loop wakes every task whose sleep is over
LoopFairness == \A t \in AllTasks : WF_vars(delete_later(t))

SpecLive == Init /\ [][Next]_vars /\ LoopFairness

\* ------------------------------------------------------- interleaved jobs
\* the local variables of the coroutine in focus (the disk is shared)
Context ==
  [update_message |-> update_message, message |-> message,
   reply_to_message |-> reply_to_message, pc |-> pc, media_obj |-> media_obj,
   file_name |-> file_name, source_msg |-> source_msg,
   warning_msg |-> warning_msg, chat |-> chat, postCalls |-> postCalls,
   delCalls |-> delCalls, userDeleted |-> userDeleted, tasks |-> tasks,
   tmpdir |-> tmpdir, original_size |-> original_size,
   compressed_size |-> compressed_size, encodeCalls |-> encodeCalls,
   repliedTo |-> repliedTo, pending |-> pending, timed_out |-> timed_out,
   outcome |-> outcome, escaped |-> escaped, scheduled |-> scheduled,
   encodeResult |-> encodeResult, deleteErrors |-> deleteErrors, cmd |-> cmd,
   tmpdir_path |-> tmpdir_path, wrote |-> wrote, job |-> job]

\* the locals of a handler call that has not started: lines 118-126
Fresh(j, m, reply) ==
  [update_message |-> TRUE, message |-> m, reply_to_message |-> reply,
   pc |-> "start", media_obj |-> "None", file_name |-> <<>>,
   source_msg |-> "message", warning_msg |-> "None",
   chat |-> [x \in MsgIds |-> IF x = "message" THEN "present" ELSE "absent"],
   postCalls |-> [x \in MsgIds |-> 0], delCalls |-> [x \in MsgIds |-> 0],
   userDeleted |-> {}, tasks |-> {}, tmpdir |-> "none", original_size |-> 0,
   compressed_size |-> 0, encodeCalls |-> 0, repliedTo |-> "none",
   pending |-> "none", timed_out |-> FALSE, outcome |-> "Running",
   escaped |-> {}, scheduled |-> {}, encodeResult |-> "none",
   deleteErrors |-> {}, cmd |-> <<>>, tmpdir_path |-> "",
   wrote |-> [input |-> 0, output |-> 0], job |-> j]

Holds(c) ==
  /\ update_message = c.update_message
  /\ message = c.message
  /\ reply_to_message = c.reply_to_message
  /\ pc = c.pc
  /\ media_obj = c.media_obj
  /\ file_name = c.file_name
  /\ source_msg = c.source_msg
  /\ warning_msg = c.warning_msg
  /\ chat = c.chat
  /\ postCalls = c.postCalls
  /\ delCalls = c.delCalls
  /\ userDeleted = c.userDeleted
  /\ tasks = c.tasks
  /\ tmpdir = c.tmpdir
  /\ original_size = c.original_size
  /\ compressed_size = c.compressed_size
  /\ encodeCalls = c.encodeCalls
  /\ repliedTo = c.repliedTo
  /\ pending = c.pending
  /\ timed_out = c.timed_out
  /\ outcome = c.outcome
  /\ escaped = c.escaped
  /\ scheduled = c.scheduled
  /\ encodeResult = c.encodeResult
  /\ deleteErrors = c.deleteErrors
  /\ cmd = c.cmd
  /\ tmpdir_path = c.tmpdir_path
  /\ wrote = c.wrote
  /\ job = c.job

Resume(c) ==
  /\ update_message' = c.update_message
  /\ message' = c.message
  /\ reply_to_message' = c.reply_to_message
  /\ pc' = c.pc
  /\ media_obj' = c.media_obj
  /\ file_name' = c.file_name
  /\ source_msg' = c.source_msg
  /\ warning_msg' = c.warning_msg
  /\ chat' = c.chat
  /\ postCalls' = c.postCalls
  /\ delCalls' = c.delCalls
  /\ userDeleted' = c.userDeleted
  /\ tasks' = c.tasks
  /\ tmpdir' = c.tmpdir
  /\ original_size' = c.original_size
  /\ compressed_size' = c.compressed_size
  /\ encodeCalls' = c.encodeCalls
  /\ repliedTo' = c.repliedTo
  /\ pending' = c.pending
  /\ timed_out' = c.timed_out
  /\ outcome' = c.outcome
  /\ escaped' = c.escaped
  /\ scheduled' = c.scheduled
  /\ encodeResult' = c.encodeResult
  /\ deleteErrors' = c.deleteErrors
  /\ cmd' = c.cmd
  /\ tmpdir_path' = c.tmpdir_path
  /\ wrote' = c.wrote
  /\ job' = c.job

\* the event loop suspends the coroutine in focus at an await and resumes the
\* other one; subprocess.run (line 73) is no await, the loop cannot switch there
Switch ==
  /\ LoopFree
  /\ parked # <<>>
  /\ parked[1].pc # "Done" \/ parked[1].tasks # {}
  /\ Resume(parked[1])
  /\ parked' = <<Context>>
  /\ UNCHANGED files

\* two /compress commands: one on a video message, one replying to a video document
InitJobs ==
  /\ Holds(Fresh(1, [video |-> <<[file_name |-> ClipMp4]>>, document |-> <<>>], <<>>))
  /\ parked = <<Fresh(2, [video |-> <<>>, document |-> <<>>],
                      <<[video |-> <<>>,
                         document |-> <<[mime_type |-> VideoMp4, file_name |-> compressed_prefix \o ClipMp4]>>]>>)>>
  /\ files = {}

NextJobs ==
  \/ Resolve
  \/ ProcessingPost
  \/ GetFile
  \/ Download
  \/ EncodeStart
  \/ EncodeFinish
  \/ FailPost
  \/ WarningPost
  \/ LimitPost
  \/ NoReductionCleanup
  \/ Deliver
  \/ TimeoutPost
  \/ FinallyCleanup
  \/ DeleteLater
  \/ Switch

SpecJobs == InitJobs /\ [][NextJobs]_vars

\* ------------------------------------------------------------ properties
Done == pc = "Done"
OversizeBytes == OversizeMB * BytesPerMB
Ephemerals == {"processing_msg", "warning_msg", "file_not_found_msg", "limit_erorr_msg", "err_msg"}
FiveOutcomes == {"Success", "NoReduction", "EncodeFailure", "DeliveryTimeout", "NoInputFound"}
NotifierSites ==
  {"usage_post", "usage_delete", "processing_post", "fail_post", "warning_post",
   "limit_post", "timeout_post", "delete_later"} \cup CleanupSites
WasPosted(m) == chat[m] # "absent"
\* the command itself carries no video and there is a reply target to look at
SourceIsReply == get_video_from_message(message)[1] = "None" /\ reply_to_message # <<>>

\* C1: a job that posted the processing-status message and ends as success,
\* no reduction, encoder failure or delivery timeout has, when it is Done,
\* called delete() on the processing-status message, on the command message
\* and on the oversize warning if one was posted.
C1_CleanupOnEveryExit ==
  (Done /\ WasPosted("processing_msg")
        /\ outcome \in {"Success", "NoReduction", "EncodeFailure", "DeliveryTimeout"})
    => /\ delCalls["processing_msg"] >= 1
       /\ delCalls["message"] >= 1
       /\ (warning_msg # "None" => delCalls["warning_msg"] >= 1)

\* C2: once the job is Done its workspace directory does not exist, whatever
\* the outcome (exceptions included), and on the no-input path no workspace
\* is ever created.
C2_WorkspaceReclaimed ==
  /\ Done => (tmpdir # "exists" /\ files = {})
  /\ (pc \in {"usage_post", "usage_delete"} \/ outcome = "NoInputFound") => tmpdir = "none"

\* the workspace existed and a failed download threw out of the with block
C2_Witness ==
  Done /\ tmpdir = "removed" /\ "download" \in escaped

\* C3: when the job is Done and every deferred deletion has run, each
\* ephemeral message that was posted has received exactly one delete() call.
C3_EphemeralDeletedExactlyOnce ==
  (Done /\ tasks = {}) => \A m \in Ephemerals : WasPosted(m) => delCalls[m] = 1

\* C4: a job whose encode succeeded with compressed size >= original size
\* never calls reply_video, and it issues the no-reduction explanation, whose
\* deferred deletion is scheduled with a delay of 10 seconds.
C4_NoReductionNotDelivered ==
  (Done /\ encodeResult = "ok" /\ compressed_size >= original_size)
    => /\ postCalls["video_reply"] = 0
       /\ postCalls["limit_erorr_msg"] = 1
       /\ (WasPosted("limit_erorr_msg")
             => [msg |-> "limit_erorr_msg", delay |-> 10] \in scheduled)

\* C5: whenever reply_video is called, it is called on the replied-to message
\* if the video was found there, and on the command message if the command
\* itself carries the video.
C5_DeliveredToSource ==
  postCalls["video_reply"] > 0
    => repliedTo = (IF SourceIsReply THEN "reply_to_message" ELSE "message")

C5_Witness ==
  SourceIsReply /\ chat["video_reply"] = "present" /\ repliedTo = "reply_to_message"

\* C6: no exception raised by posting or deleting a status/error/command
\* message ever leaves the coroutine that made the call.
C6_NotifierFailureContained ==
  escaped \cap NotifierSites = {}

\* C7: an exception raised by a delete() call of a cleanup block or of a
\* delete_later task (the message being already gone included) never leaves
\* the coroutine that made the call.
C7_DeletionSwallowed ==
  escaped \cap (CleanupSites \cup {"delete_later"}) = {}

\* the user removed a message by hand and the bot's later delete() of it,
\* in cleanup or from the timer, raised BadRequest
C7_Witness ==
  \E e \in deleteErrors :
    /\ e.exc = "BadRequest"
    /\ e.site \in CleanupSites \cup {"delete_later"}
    /\ userDeleted # {}

\* C8: a job that found no video has, when it is Done, issued the usage
\* help once, scheduled its deletion after 10 seconds, called delete() on the
\* command message, and has neither posted a processing-status message nor
\* created a workspace nor run the encoder nor called reply_video.
C8_NoInputShortCircuit ==
  (Done /\ update_message /\ media_obj = "None")
    => /\ postCalls["file_not_found_msg"] = 1
       /\ (WasPosted("file_not_found_msg")
             => [msg |-> "file_not_found_msg", delay |-> 10] \in scheduled)
       /\ delCalls["message"] = 1
       /\ postCalls["processing_msg"] = 0
       /\ tmpdir = "none"
       /\ encodeCalls = 0
       /\ postCalls["video_reply"] = 0

\* C9: after the encoder exited non-zero the handler only posts the failure
\* notice: one reply_text call for it and for no other outcome message, no
\* reply_video call, no second encoder run, and the workspace is removed
\* when the job is Done.
C9_EncodeFailureHandled ==
  encodeResult = "CalledProcessError"
    => /\ pc \in {"fail_post", "Done"}
       /\ encodeCalls = 1
       /\ postCalls["video_reply"] = 0
       /\ postCalls["limit_erorr_msg"] = 0
       /\ postCalls["err_msg"] = 0
       /\ postCalls["warning_msg"] = 0
       /\ Done => (postCalls["fail_msg"] = 1 /\ tmpdir = "removed" /\ files = {})

C9_Witness ==
  /\ Done
  /\ encodeResult = "CalledProcessError"
  /\ outcome = "EncodeFailure"
  /\ chat["fail_msg"] = "present"
  /\ tmpdir = "removed"

\* C10 as stated: a job that ends with one of the five outcomes has put
\* exactly one message besides the processing-status message in the chat.
ChatTexts == BotMsgs \ {"processing_msg"}
C10_ExactlyOneMessage ==
  (Done /\ outcome \in FiveOutcomes)
    => Cardinality({m \in ChatTexts : WasPosted(m)}) = 1

OutcomeMessage(o) ==
  CASE o = "Success" -> "video_reply"
    [] o = "NoReduction" -> "limit_erorr_msg"
    [] o = "EncodeFailure" -> "fail_msg"
    [] o = "DeliveryTimeout" -> "err_msg"
    [] o = "NoInputFound" -> "file_not_found_msg"

\* C10 amended: a job that ends with one of the five outcomes has put in the
\* chat exactly one outcome message, the one of its outcome, and in addition
\* the oversize advisory exactly when the compressed size exceeds 45 MB.
C10_OneOutcomeMessagePlusAdvisory ==
  (Done /\ outcome \in FiveOutcomes)
    => /\ {m \in ChatTexts \ {"warning_msg"} : WasPosted(m)} = {OutcomeMessage(outcome)}
       /\ (WasPosted("warning_msg") <=> compressed_size > OversizeBytes)

\* a delivered video preceded by the oversize advisory: two messages
C10_Witness ==
  /\ Done
  /\ outcome = "Success"
  /\ WasPosted("warning_msg")
  /\ chat["video_reply"] = "present"

\* C11 as stated: a job whose encode succeeded with 45 MB < compressed <
\* original has, when it is Done, issued the oversize advisory, called
\* reply_video, and called delete() on the advisory if it was posted; with
\* compressed <= 45 MB the advisory is never issued.
C11_OversizeAdvisory ==
  (Done /\ encodeResult = "ok")
    => /\ (compressed_size > OversizeBytes /\ compressed_size < original_size)
            => /\ postCalls["warning_msg"] = 1
               /\ postCalls["video_reply"] = 1
               /\ (WasPosted("warning_msg") => delCalls["warning_msg"] = 1)
       /\ compressed_size <= OversizeBytes => postCalls["warning_msg"] = 0

\* C12 as stated: a job whose reply_video timed out has, when it is Done,
\* issued the timeout error (scheduled for deletion after 10 seconds if it
\* was posted), called delete() on the processing-status message, on the
\* command message and on the warning if any, and its workspace is gone.
C12_DeliveryTimeoutHandled ==
  (Done /\ timed_out)
    => /\ postCalls["err_msg"] = 1
       /\ (WasPosted("err_msg") => [msg |-> "err_msg", delay |-> 10] \in scheduled)
       /\ delCalls["processing_msg"] = 1
       /\ delCalls["message"] = 1
       /\ (warning_msg # "None" => delCalls["warning_msg"] = 1)
       /\ tmpdir = "removed"
       /\ files = {}

\* what the locator is expected to find in one message, stated on the
\* message shapes and not through startswith
HasVideo(m) == m.video # <<>>
HasVideoDocument(m) == m.document # <<>> /\ m.document[1].mime_type = VideoMp4
Usable(m) == HasVideo(m) \/ HasVideoDocument(m)
ExpectedKind(m) == IF HasVideo(m) THEN "video" ELSE "document"
GivenName(m) == IF HasVideo(m) THEN m.video[1].file_name ELSE m.document[1].file_name
ExpectedName(m) == IF GivenName(m) = <<>> THEN InputMp4 ELSE GivenName(m)

\* C13: once the media is located, the command message wins if it has a
\* video or a video/ document (the video first); the reply target is used
\* with the same two checks only if the command has neither; nothing is
\* found only if neither message is usable; a missing name is input.mp4.
C13_MediaLocation ==
  (update_message /\ pc # "start")
    => IF Usable(message)
         THEN /\ source_msg = "message"
              /\ media_obj = ExpectedKind(message)
              /\ file_name = ExpectedName(message)
       ELSE IF reply_to_message # <<>> /\ Usable(reply_to_message[1])
         THEN /\ source_msg = "reply_to_message"
              /\ media_obj = ExpectedKind(reply_to_message[1])
              /\ file_name = ExpectedName(reply_to_message[1])
       ELSE media_obj = "None"

\* the command carries a non-video document, the reply target a nameless
\* video document and, unused, nothing else
C13_Witness ==
  /\ pc = "processing_post"
  /\ message.document # <<>>
  /\ ~Usable(message)
  /\ source_msg = "reply_to_message"
  /\ media_obj = "document"
  /\ file_name = InputMp4

\* C16 as stated: when the delete() of the processing-status message raised
\* in a cleanup block, the job has, when it is Done, still called delete()
\* on the command message and on the oversize warning if one was posted.
C16_CleanupBestEffort ==
  (Done /\ \E e \in deleteErrors : e.site \in {"nr_processing", "fin_processing"})
    => /\ delCalls["message"] = 1
       /\ (warning_msg # "None" => delCalls["warning_msg"] = 1)

CleanupCalls == delCalls["processing_msg"] + delCalls["message"] + delCalls["warning_msg"]

\* C17: every step keeps the pipeline order: the download writes its file
\* only after the processing-status message was posted; the encoder starts
\* only with the downloaded input in place and only once; reply_video is
\* called only once, only after a successful encode that made the file
\* smaller, and before any cleanup delete(); a cleanup delete() is called
\* only when no reply_video call is still to come.
C17_PipelineOrder ==
  [][ /\ (files' # {} /\ files = {}) => WasPosted("processing_msg")
      /\ (encodeCalls' # encodeCalls)
           => (encodeCalls = 0 /\ \E f \in files : f.path = input_path)
      /\ (postCalls'["video_reply"] # postCalls["video_reply"])
           => /\ postCalls["video_reply"] = 0
              /\ encodeResult = "ok"
              /\ compressed_size < original_size
              /\ CleanupCalls = 0
      /\ (pc \in CleanupSites /\ delCalls' # delCalls)
           => pc' \in CleanupSites \cup {"Done"}
    ]_vars

C17_Witness ==
  /\ Done
  /\ outcome = "Success"
  /\ postCalls["video_reply"] = 1
  /\ delCalls["processing_msg"] = 1
  /\ delCalls["message"] = 1

JobVars == <<pc, outcome, pending, timed_out, warning_msg, postCalls, tmpdir, files>>

\* C15: every message handed to delete_later eventually gets its delete()
\* call, however the job ends; and the step in which a delete_later task
\* runs, failing or not, changes nothing of the job.
C15_DeferredDeletion ==
  /\ \A t \in AllTasks : (t \in scheduled) ~> (delCalls[t.msg] >= 1)
  /\ [][(tasks' # tasks /\ scheduled' = scheduled) => UNCHANGED JobVars]_vars

\* the job is over while the deferred deletion it scheduled is still pending
C15_Witness ==
  /\ Done
  /\ outcome = "NoReduction"
  /\ [msg |-> "limit_erorr_msg", delay |-> delay_limit_erorr] \in tasks
  /\ delCalls["limit_erorr_msg"] = 0

\* C19: whenever compress_video has run the encoder, the argument list is
\* the one its docstring documents: force-overwrite, the input, scale=-2:720,
\* libx264, -crf 28, preset veryfast, aac, the output.
C19_DocumentedTemplate ==
  encodeCalls > 0 =>
    cmd = <<"ffmpeg", "-y", "-i", input_path, "-vf", "scale=-2:720", "-c:v", "libx264",
            "-crf", "28", "-preset", "veryfast", "-c:a", "aac", output_path>>

\* C20: the output path is never the input path; a successful encode leaves
\* the downloaded file as it was written, next to the output file, and the
\* original size is the size of that untouched input.
C20_OutputNeverOverwritesInput ==
  /\ [](file_name # <<>> => output_path # input_path)
  /\ [](encodeResult = "ok" =>
          /\ original_size = wrote.input
          /\ compressed_size = wrote.output
          /\ (tmpdir = "exists" =>
                /\ [path |-> input_path, size |-> wrote.input] \in files
                /\ [path |-> output_path, size |-> wrote.output] \in files))
  /\ [][(pc = "encoding" /\ tmpdir' = "exists") =>
          \A f \in files : f.path = input_path => f \in files']_vars

\* an encode succeeded on a file whose own name starts with compressed_, with
\* sizes that tell the two files apart
C20_Witness ==
  /\ job = 0
  /\ encodeResult = "ok"
  /\ tmpdir = "exists"
  /\ file_name = compressed_prefix \o ClipMp4
  /\ original_size # compressed_size
  /\ Cardinality(files) = 2

\* the coroutine out of focus is unfinished or has a deferred deletion to run
OtherReady == parked # <<>> /\ (parked[1].tasks # {} \/ parked[1].pc # "Done")

\* C14: while a job is in Encoding, another job or a pending deferred
\* deletion that is ready to run can take its step.
C14_EncodeOffScheduler ==
  (pc = "encoding" /\ OtherReady) => ENABLED (Switch \/ DeleteLater)

\* the workspace, sizes and history of a job that are true to each other
OwnSizes(c) ==
  c.encodeResult = "ok" =>
    /\ c.original_size = c.wrote.input
    /\ c.compressed_size = c.wrote.output
    /\ c.original_size \in InSizes(c.job)
    /\ c.compressed_size \in OutSizes(c.job)

OwnFiles(c) ==
  (c.tmpdir = "exists" /\ c.wrote.input # 0) =>
    /\ [path |-> <<c.tmpdir_path, c.file_name>>, size |-> c.wrote.input] \in files
    /\ \A f \in files : f.path[1] = c.tmpdir_path => f.size \in {c.wrote.input, c.wrote.output}

\* C18: with two jobs interleaved, the workspaces that exist at one time are
\* different directories and hold only their own job's files, the sizes a
\* job compares are the ones its own download and encode wrote, a job makes
\* its workspace once, and a step of one job leaves the other job's
\* variables and files alone.
C18_JobIsolation ==
  /\ [](parked # <<>> =>
          /\ (tmpdir = "exists" /\ parked[1].tmpdir = "exists") => tmpdir_path # parked[1].tmpdir_path
          /\ OwnSizes(Context) /\ OwnSizes(parked[1])
          /\ OwnFiles(Context) /\ OwnFiles(parked[1]))
  /\ [][(parked # <<>> /\ job' = job) =>
          /\ parked' = parked
          /\ (tmpdir' = "exists" /\ tmpdir # "exists") => tmpdir = "none"
          /\ parked[1].tmpdir = "exists" =>
               \A f \in files : f.path[1] = parked[1].tmpdir_path => f \in files']_vars

\* both jobs have encoded in workspaces that exist at the same time
C18_Witness ==
  /\ parked # <<>>
  /\ tmpdir = "exists" /\ parked[1].tmpdir = "exists"
  /\ encodeResult = "ok" /\ parked[1].encodeResult = "ok"
  /\ Cardinality(files) = 4

====
